---- MODULE Spec2Model ----
(***************************************************************************)
(* Ophelia's Oasis hotel reservation system: the reservation store         *)
(* (hrs_data.json) and the handlers of the three programs that work on it: *)
(*   - ReservationApp of uiMakeReservation.py           (suffix-less names)*)
(*   - ReservationApp of uiMakeReservation_enhanced.py  (names ending _enh)*)
(*   - CheckInOutApp  of uiCheckout_enhanced.py         (names ending _cio)*)
(*                                                                         *)
(* Conventions of the model                                                *)
(*   - money is an integer number of cents; a rate multiplier is a         *)
(*     percentage; round(x, 2) is RoundHalfEven on the exact quotient;     *)
(*   - a date is a day number; TODAY() is the variable today;              *)
(*   - a dict key that a program reads with .get(key, default) and that a  *)
(*     record lacks is held with that default;                             *)
(*   - a handler runs on the store as it is on disk: every handler ends    *)
(*     with save_state and a reload (refresh_res_list / _refresh_list),    *)
(*     and the operator selects the row (on_select_res / _on_select) right *)
(*     before pressing the button, so the record a handler works on is the *)
(*     record of that locator in the store (one writer at a time);         *)
(*   - data_file is hrs_data.json; it falls behind self.state_data only    *)
(*     when a handler raises between its writes and save_state;            *)
(*   - the variables of the store and of the base form are those of the    *)
(*     process the operator works in; terminal2 holds those of a second    *)
(*     process of uiMakeReservation.py, and Switch changes seats;          *)
(*   - a yes/no dialog is the input confirm;                               *)
(*   - the two reservation forms share nothing but the store, so a quote   *)
(*     is taken in one form while the other holds none;                    *)
(*   - ops counts the handler runs on the store besides Confirm & Save and *)
(*     is capped by MaxOps.                                                *)
(***************************************************************************)
EXTENDS Integers, Sequences, FiniteSets, TLC

VARIABLES
    reservations,     \* state["reservations"]: the list of reservation records
    base_rates,       \* state["base_rates"]: date -> nightly base price
    last_locator,     \* state["last_locator"]
    reminders,        \* state["payment_reminders_sent"]: the locators reminded
    form,             \* ReservationApp.arr, .dep, .rtype (uiMakeReservation.py)
    last_quote,       \* ReservationApp.last_quote (uiMakeReservation.py)
    form_enh,         \* ReservationApp.arr, .dep, .rtype (uiMakeReservation_enhanced.py)
    last_quote_enh,   \* ReservationApp.last_quote (uiMakeReservation_enhanced.py)
    today,            \* TODAY()
    loaded,           \* how many reservations of the data file the operator leaves alone
    ops,              \* handler runs on the store so far
    data_file,        \* hrs_data.json (DATA_FILE) as save_state wrote it last
    terminal2         \* a second process of uiMakeReservation.py: its state_data,
                      \* form and last_quote

vars == <<reservations, base_rates, last_locator, reminders, form, last_quote,
          form_enh, last_quote_enh, today, loaded, ops, data_file, terminal2>>

(***************************************************************************)
(* Program constants                                                       *)
(***************************************************************************)
ROOM_COUNT == 45
DEFAULT_RATE == 30000
FIRST_LOCATOR == 4000
SEED_DAYS == 30
SEED_BASE == 28000
SEED_STEP == 1000
SEED_CYCLE == 5
INCENTIVE_DAYS == 30
INCENTIVE_OCC_PCT == 60
CHANGE_PCT == 110
PENALTY_WINDOW == 3
MAX_DAYS_BASE == 60
MIN_DAYS == 1
MAX_DAYS == 14
PREPAID_ADVANCE == 90
SIXTY_ADVANCE == 60
REMINDER_OFFSET == 45
AUTOCANCEL_OFFSET == 30

RTYPES == {"Prepaid", "60-Day", "Conventional", "Incentive"}
\* The multipliers with the Conventional rate discounted like the 60-Day one.
RATE_MULT_discounted == [t \in RTYPES |->
                 CASE t = "Prepaid" -> 75
                   [] t = "60-Day" -> 85
                   [] t = "Conventional" -> 85
                   [] t = "Incentive" -> 80]
RATE_MULT == [t \in RTYPES |->
                 CASE t = "Prepaid" -> 75
                   [] t = "60-Day" -> 85
                   [] t = "Conventional" -> 100
                   [] t = "Incentive" -> 80]
STATUSES == {"Booked", "In-House", "Checked-out", "Cancelled", "Changing date"}
STATUSES_enh == {"Booked", "In-House", "Checked-out", "Cancelled", "No-Show"}

(***************************************************************************)
(* Bounds of the model                                                     *)
(***************************************************************************)
MaxNew == 1          \* reservations saved on top of the loaded store
MaxToday == 1        \* days the clock advances
MaxPayments == 2     \* entries of one reservation's payment history
MaxNights == 2       \* nights of a span the operator enters
MaxOps == 3          \* handler runs on the store besides Confirm & Save

NoDate == 0 - 1      \* a date field or key that is empty
NoDays == 0 - 1      \* an empty Number of Days field

Max(a, b) == IF a >= b THEN a ELSE b

(***************************************************************************)
(* round(x, 2) of Python on x = num/den cents: nearest, ties to even.      *)
(***************************************************************************)
RoundHalfEven(num, den) ==
    LET q == num \div den
        r == num % den
    IN  IF 2 * r < den THEN q
        ELSE IF 2 * r > den THEN q + 1
        ELSE IF q % 2 = 0 THEN q ELSE q + 1

(***************************************************************************)
(* Locators.  A reservation ID is a string; the model keeps it as a prefix *)
(* and a string of decimal digits, so that f"OO{n}" and the match of       *)
(* ^OO(\d+)$ followed by int() are computed and not assumed inverse.       *)
(***************************************************************************)
RECURSIVE DigitsOf(_)
DigitsOf(n) == IF n < 10 THEN <<n>> ELSE Append(DigitsOf(n \div 10), n % 10)

RECURSIVE IntOf(_)
IntOf(ds) == IF ds = <<>> THEN 0
             ELSE 10 * IntOf(SubSeq(ds, 1, Len(ds) - 1)) + ds[Len(ds)]

FormatLocator(n) == [pfx |-> "OO", digits |-> DigitsOf(n)]
MatchesLocator(id) == id.pfx = "OO" /\ Len(id.digits) >= 1
EmptyId == [pfx |-> "", digits |-> <<>>]

(***************************************************************************)
(* Reservation records                                                     *)
(***************************************************************************)
NoNote == [text |-> "", new_110 |-> 0, original_cost |-> 0, change_cost |-> 0]

NoQuote == [set |-> FALSE, total |-> 0, nightly |-> <<>>, eligible |-> FALSE,
            occ |-> [num |-> 0, den |-> 1]]

RES_ID(r) == r.id                       \* r.get("reservation_id", r.get("locator"))

RECURSIVE SumRates(_)
SumRates(nightly) ==
    IF nightly = <<>> THEN 0 ELSE nightly[1].rate + SumRates(Tail(nightly))

(***************************************************************************)
(* Pricing helpers                                                         *)
(***************************************************************************)
daterange(start, end) == start .. (end - 1)

base_rate(rates, d) == IF d \in DOMAIN rates THEN rates[d] ELSE DEFAULT_RATE

IsActive(r) == r.status \in {"Booked", "In-House"}

Covers(r, d) == r.arrive <= d /\ d < r.depart

\* The occupancy ratio as the exact fraction num/den.
occ_ratio(res, start, end) ==
    LET act == {i \in 1..Len(res) : IsActive(res[i])}
        nights == daterange(start, end)
        total == Cardinality({p \in act \X nights : Covers(res[p[1]], p[2])})
    IN  IF act = {} \/ nights = {} THEN [num |-> 0, den |-> 1]
        ELSE [num |-> total, den |-> Cardinality(nights) * ROOM_COUNT]

Occupied(res, d, exclude) ==
    Cardinality({i \in 1..Len(res) :
        Covers(res[i], d) /\ IsActive(res[i]) /\ RES_ID(res[i]) # exclude})

\* is_available_for that takes a night with no free room as available.
is_available_for_zero(res, start, end, exclude) ==
    LET nights == daterange(start, end)
        free(d) == Max(0, ROOM_COUNT - Occupied(res, d, exclude))
        min_available == CHOOSE m \in {free(d) : d \in nights} :
                             \A d \in nights : m <= free(d)
    IN  IF nights = {} THEN [available |-> TRUE, min_available |-> ROOM_COUNT]
        ELSE [available |-> min_available >= 0, min_available |-> min_available]

is_available_for(res, start, end, exclude) ==
    LET nights == daterange(start, end)
        free(d) == Max(0, ROOM_COUNT - Occupied(res, d, exclude))
        min_available == CHOOSE m \in {free(d) : d \in nights} :
                             \A d \in nights : m <= free(d)
    IN  IF nights = {} THEN [available |-> TRUE, min_available |-> ROOM_COUNT]
        ELSE [available |-> min_available > 0, min_available |-> min_available]

\* quote_total raises ValueError("Departure must be after arrival.") on these.
QuoteRaises(arrive, depart) == depart <= arrive

\* quote_total with the change policy applied to every reservation type.
quote_total_alltypes(res, rates, now, arrive, depart, rtype, original_cost, is_change) ==
    LET occ == occ_ratio(res, arrive, depart)
        eligible == (arrive - now) <= INCENTIVE_DAYS
                    /\ occ.num * 100 <= INCENTIVE_OCC_PCT * occ.den
        mult == IF rtype = "Incentive" /\ ~eligible THEN 100
                ELSE IF rtype \in RTYPES THEN RATE_MULT[rtype] ELSE 100
        nightly == [k \in 1..(depart - arrive) |->
                       [date |-> arrive + k - 1,
                        rate |-> RoundHalfEven(base_rate(rates, arrive + k - 1) * mult, 100)]]
        new_total == SumRates(nightly)
        new_110 == RoundHalfEven(new_total * CHANGE_PCT, 100)
        change_cost == new_110 - original_cost
        surcharge == original_cost # 0
    IN  [total |-> IF surcharge THEN new_110 ELSE new_total,
         nightly |-> nightly,
         eligible |-> eligible,
         occ |-> occ,
         change_note |-> IF surcharge
                         THEN [text |-> "Change policy math", new_110 |-> new_110,
                               original_cost |-> original_cost,
                               change_cost |-> change_cost]
                         ELSE NoNote,
         penalty_amount |-> IF surcharge THEN Max(change_cost, 0) ELSE 0]

\* quote_total that grants the incentive on the days to arrival alone.
quote_total_anyocc(res, rates, now, arrive, depart, rtype, original_cost, is_change) ==
    LET occ == occ_ratio(res, arrive, depart)
        eligible == (arrive - now) <= INCENTIVE_DAYS
        mult == IF rtype = "Incentive" /\ ~eligible THEN 100
                ELSE IF rtype \in RTYPES THEN RATE_MULT[rtype] ELSE 100
        nightly == [k \in 1..(depart - arrive) |->
                       [date |-> arrive + k - 1,
                        rate |-> RoundHalfEven(base_rate(rates, arrive + k - 1) * mult, 100)]]
        new_total == SumRates(nightly)
        new_110 == RoundHalfEven(new_total * CHANGE_PCT, 100)
        change_cost == new_110 - original_cost
        surcharge == is_change /\ rtype \in {"Prepaid", "60-Day"}
    IN  [total |-> IF surcharge THEN new_110 ELSE new_total,
         nightly |-> nightly,
         eligible |-> eligible,
         occ |-> occ,
         change_note |-> IF surcharge
                         THEN [text |-> "Change policy math", new_110 |-> new_110,
                               original_cost |-> original_cost,
                               change_cost |-> change_cost]
                         ELSE NoNote,
         penalty_amount |-> IF surcharge THEN Max(change_cost, 0) ELSE 0]

\* quote_total that returns the plain total and keeps the surcharge to the note.
quote_total_plain(res, rates, now, arrive, depart, rtype, original_cost, is_change) ==
    LET occ == occ_ratio(res, arrive, depart)
        eligible == (arrive - now) <= INCENTIVE_DAYS
                    /\ occ.num * 100 <= INCENTIVE_OCC_PCT * occ.den
        mult == IF rtype = "Incentive" /\ ~eligible THEN 100
                ELSE IF rtype \in RTYPES THEN RATE_MULT[rtype] ELSE 100
        nightly == [k \in 1..(depart - arrive) |->
                       [date |-> arrive + k - 1,
                        rate |-> RoundHalfEven(base_rate(rates, arrive + k - 1) * mult, 100)]]
        new_total == SumRates(nightly)
        new_110 == RoundHalfEven(new_total * CHANGE_PCT, 100)
        change_cost == new_110 - original_cost
        surcharge == is_change /\ rtype \in {"Prepaid", "60-Day"}
    IN  [total |-> new_total,
         nightly |-> nightly,
         eligible |-> eligible,
         occ |-> occ,
         change_note |-> IF surcharge
                         THEN [text |-> "Change policy math", new_110 |-> new_110,
                               original_cost |-> original_cost,
                               change_cost |-> change_cost]
                         ELSE NoNote,
         penalty_amount |-> IF surcharge THEN Max(change_cost, 0) ELSE 0]

quote_total(res, rates, now, arrive, depart, rtype, original_cost, is_change) ==
    LET occ == occ_ratio(res, arrive, depart)
        eligible == (arrive - now) <= INCENTIVE_DAYS
                    /\ occ.num * 100 <= INCENTIVE_OCC_PCT * occ.den
        mult == IF rtype = "Incentive" /\ ~eligible THEN 100
                ELSE IF rtype \in RTYPES THEN RATE_MULT[rtype] ELSE 100
        nightly == [k \in 1..(depart - arrive) |->
                       [date |-> arrive + k - 1,
                        rate |-> RoundHalfEven(base_rate(rates, arrive + k - 1) * mult, 100)]]
        new_total == SumRates(nightly)
        new_110 == RoundHalfEven(new_total * CHANGE_PCT, 100)
        change_cost == new_110 - original_cost
        surcharge == is_change /\ rtype \in {"Prepaid", "60-Day"}
    IN  [total |-> IF surcharge THEN new_110 ELSE new_total,
         nightly |-> nightly,
         eligible |-> eligible,
         occ |-> occ,
         change_note |-> IF surcharge
                         THEN [text |-> "Change policy math", new_110 |-> new_110,
                               original_cost |-> original_cost,
                               change_cost |-> change_cost]
                         ELSE NoNote,
         penalty_amount |-> IF surcharge THEN Max(change_cost, 0) ELSE 0]

\* quote_total of uiMakeReservation_enhanced.py: no change policy.
quote_total_enh(res, rates, now, arrive, depart, rtype) ==
    LET occ == occ_ratio(res, arrive, depart)
        eligible == (arrive - now) <= INCENTIVE_DAYS
                    /\ occ.num * 100 <= INCENTIVE_OCC_PCT * occ.den
        mult == IF rtype = "Incentive" /\ ~eligible THEN 100
                ELSE IF rtype \in RTYPES THEN RATE_MULT[rtype] ELSE 100
        nightly == [k \in 1..(depart - arrive) |->
                       [date |-> arrive + k - 1,
                        rate |-> RoundHalfEven(base_rate(rates, arrive + k - 1) * mult, 100)]]
    IN  [total |-> SumRates(nightly), nightly |-> nightly,
         eligible |-> eligible, occ |-> occ]

next_locator(n) == n + 1

(***************************************************************************)
(* State after construction: load_state and the rate table seeded by       *)
(* ReservationApp.__init__.  Init starts from no data file.  InitFull      *)
(* starts from a data file that holds a full house for the night HotDay:   *)
(* ROOM_COUNT Conventional reservations saved by on_save on Day0 with      *)
(* auto-assigned locators (on_save checks no availability, so the program  *)
(* reaches this store by itself); the operator works on the last of them   *)
(* and on the reservations saved afterwards.                               *)
(***************************************************************************)
Day0 == 10           \* the day the programs are started
HotDay == Day0 + PENALTY_WINDOW

SeedRates == [d \in Day0 .. (Day0 + SEED_DAYS - 1) |->
                 SEED_BASE + SEED_STEP * ((d - Day0) % SEED_CYCLE)]

Record(id, arrive, depart, rtype, status, room, adv, total, nightly, fully, now) ==
    [id |-> id, arrive |-> arrive, depart |-> depart, rtype |-> rtype,
     status |-> status, assigned_room |-> room,
     paid_advance |-> adv,
     payments |-> IF adv # 0 THEN <<[date |-> now, amount |-> adv]>> ELSE <<>>,
     total_locked |-> total, nightly |-> nightly,
     checked_in |-> FALSE, checked_out |-> FALSE, fully_paid |-> fully,
     no_show_penalty |-> 0, cancellation_fee |-> 0, no_show_fee |-> 0,
     change_note |-> NoNote, cancellation_reason |-> "", check_in_date |-> NoDate,
     paid_at_checkout |-> 0, final_paid |-> 0]

Background ==
    [k \in 1..ROOM_COUNT |->
        Record(FormatLocator(FIRST_LOCATOR + k), HotDay, HotDay + 1, "Conventional",
               "Booked", "", 0, SeedRates[HotDay],
               <<[date |-> HotDay, rate |-> SeedRates[HotDay]]>>, FALSE, Day0)]

\* self.state_data: what load_state returns and save_state dumps.
state_data ==
    [reservations |-> reservations, base_rates |-> base_rates,
     last_locator |-> last_locator, reminders |-> reminders]

\* A process of uiMakeReservation.py: ReservationApp.state_data as __init__ and
\* refresh_res_list loaded it, the form and the quote.
terminal == [state_data |-> state_data, form |-> form, last_quote |-> last_quote]

\* The form as __init__ / _init_variables leave it.
InitForm == [arr |-> Day0 + 10, dep |-> Day0 + 13, rtype |-> "Conventional"]
InitForm_enh(now) == [arr |-> now + 10, dep |-> now + 13, num_days |-> 3,
                      rtype |-> "Conventional"]

Init ==
    /\ reservations = <<>>
    /\ loaded = 0
    /\ base_rates = SeedRates
    /\ last_locator = FIRST_LOCATOR
    /\ reminders = {}
    /\ form = InitForm
    /\ last_quote = NoQuote
    /\ form_enh = InitForm_enh(Day0)
    /\ last_quote_enh = NoQuote
    /\ today = Day0
    /\ ops = 0
    /\ data_file = state_data
    /\ terminal2 = terminal

InitFull ==
    /\ reservations = Background
    /\ loaded = ROOM_COUNT - 1
    /\ base_rates = SeedRates
    /\ last_locator = FIRST_LOCATOR + ROOM_COUNT
    /\ reminders = {}
    /\ form = InitForm
    /\ last_quote = NoQuote
    /\ form_enh = InitForm_enh(Day0)
    /\ last_quote_enh = NoQuote
    /\ today = Day0
    /\ ops = 0
    /\ data_file = state_data
    /\ terminal2 = terminal

Ids(res) == {RES_ID(res[i]) : i \in 1..Len(res)}

\* The rows the operator works on: the reservations after the first loaded ones.
Rows == (loaded + 1) .. Len(reservations)

Upd(i, r) == [reservations EXCEPT ![i] = r]

first_night(r, rates, d) ==
    IF r.nightly # <<>> THEN r.nightly[1].rate ELSE base_rate(rates, d)

(***************************************************************************)
(* uiMakeReservation.py: Get Quote and Confirm & Save                      *)
(***************************************************************************)
is_valid_days(days) == MIN_DAYS <= days /\ days <= MAX_DAYS_BASE

\* The departure field after on_quote / _validate_form filled it from the days.
FilledDep(arr, dep, days) ==
    IF dep = NoDate /\ is_valid_days(days) THEN arr + days ELSE dep

\* The days field after on_quote filled it from the dates.
FilledDays(arr, dep, days) ==
    IF days = NoDays /\ dep # NoDate THEN dep - arr ELSE days

on_quote(arr, dep, days, rtype) ==
    LET d == FilledDep(arr, dep, days)
        n == FilledDays(arr, d, days)
        ok == /\ is_valid_days(n)
              /\ d # NoDate
              /\ ~QuoteRaises(arr, d)
        q == quote_total(reservations, base_rates, today, arr, d, rtype, 0, FALSE)
    IN  /\ form' = [arr |-> arr, dep |-> d, rtype |-> rtype]
        /\ last_quote' = IF ok THEN [set |-> TRUE, total |-> q.total,
                                     nightly |-> q.nightly, eligible |-> q.eligible,
                                     occ |-> q.occ]
                         ELSE last_quote
        /\ UNCHANGED <<reservations, base_rates, last_locator, reminders,
                       form_enh, last_quote_enh, today, loaded>>

\* _validate_form: None when the form passes.
FormError(guest_ok, card_ok, days, auto, manual) ==
    LET d == FilledDep(form.arr, form.dep, days)
    IN  \/ ~guest_ok
        \/ form.arr = NoDate
        \/ ~is_valid_days(days)
        \/ d <= form.arr
        \/ form.rtype \notin RTYPES
        \/ ~card_ok
        \/ ~auto /\ (manual = EmptyId \/ manual \in Ids(reservations))

\* The departure field as _validate_form leaves it.
DepAfterValidate(guest_ok, days) ==
    IF guest_ok /\ form.arr # NoDate /\ is_valid_days(days)
    THEN FilledDep(form.arr, form.dep, days) ELSE form.dep

\* on_save that leaves the counter alone when the operator types the ID.
on_save_nobump(guest_ok, card_ok, days, status, room, auto, manual) ==
    IF ~last_quote.set
    THEN UNCHANGED vars
    ELSE IF FormError(guest_ok, card_ok, days, auto, manual)
    THEN /\ form' = [form EXCEPT !.dep = DepAfterValidate(guest_ok, days)]
         /\ UNCHANGED <<reservations, base_rates, last_locator, reminders,
                        last_quote, form_enh, last_quote_enh, today, loaded>>
    ELSE LET dep == FilledDep(form.arr, form.dep, days)
             counter == IF auto THEN next_locator(last_locator) ELSE last_locator
             res_id == IF auto THEN FormatLocator(counter) ELSE manual
             adv == IF form.rtype = "Prepaid" THEN last_quote.total ELSE 0
         IN  /\ last_locator' = counter
             /\ reservations' = Append(reservations,
                    Record(res_id, form.arr, dep, form.rtype, status, room, adv,
                           last_quote.total, last_quote.nightly,
                           form.rtype = "Prepaid", today))
             /\ form' = [form EXCEPT !.dep = dep]
             /\ UNCHANGED <<base_rates, reminders, last_quote, form_enh,
                            last_quote_enh, today, loaded>>

\* on_save that sets the counter to the number of any typed OO<n>.
on_save_setcounter(guest_ok, card_ok, days, status, room, auto, manual) ==
    IF ~last_quote.set
    THEN UNCHANGED vars
    ELSE IF FormError(guest_ok, card_ok, days, auto, manual)
    THEN /\ form' = [form EXCEPT !.dep = DepAfterValidate(guest_ok, days)]
         /\ UNCHANGED <<reservations, base_rates, last_locator, reminders,
                        last_quote, form_enh, last_quote_enh, today, loaded>>
    ELSE LET dep == FilledDep(form.arr, form.dep, days)
             counter == IF auto THEN next_locator(last_locator)
                        ELSE IF MatchesLocator(manual)
                             THEN IntOf(manual.digits)
                             ELSE last_locator
             res_id == IF auto THEN FormatLocator(counter) ELSE manual
             adv == IF form.rtype = "Prepaid" THEN last_quote.total ELSE 0
         IN  /\ last_locator' = counter
             /\ reservations' = Append(reservations,
                    Record(res_id, form.arr, dep, form.rtype, status, room, adv,
                           last_quote.total, last_quote.nightly,
                           form.rtype = "Prepaid", today))
             /\ form' = [form EXCEPT !.dep = dep]
             /\ UNCHANGED <<base_rates, reminders, last_quote, form_enh,
                            last_quote_enh, today, loaded>>

on_save(guest_ok, card_ok, days, status, room, auto, manual) ==
    IF ~last_quote.set
    THEN UNCHANGED vars
    ELSE IF FormError(guest_ok, card_ok, days, auto, manual)
    THEN /\ form' = [form EXCEPT !.dep = DepAfterValidate(guest_ok, days)]
         /\ UNCHANGED <<reservations, base_rates, last_locator, reminders,
                        last_quote, form_enh, last_quote_enh, today, loaded>>
    ELSE LET dep == FilledDep(form.arr, form.dep, days)
             counter == IF auto THEN next_locator(last_locator)
                        ELSE IF MatchesLocator(manual)
                                /\ IntOf(manual.digits) > last_locator
                             THEN IntOf(manual.digits)
                             ELSE last_locator
             res_id == IF auto THEN FormatLocator(counter) ELSE manual
             adv == IF form.rtype = "Prepaid" THEN last_quote.total ELSE 0
         IN  /\ last_locator' = counter
             /\ reservations' = Append(reservations,
                    Record(res_id, form.arr, dep, form.rtype, status, room, adv,
                           last_quote.total, last_quote.nightly,
                           form.rtype = "Prepaid", today))
             /\ form' = [form EXCEPT !.dep = dep]
             /\ UNCHANGED <<base_rates, reminders, last_quote, form_enh,
                            last_quote_enh, today, loaded>>

(***************************************************************************)
(* uiMakeReservation.py: handlers of the reservations browser              *)
(***************************************************************************)
update_selected(i, status, room) ==
    /\ reservations' = Upd(i, [reservations[i] EXCEPT !.status = status,
                                                       !.assigned_room = room])
    /\ UNCHANGED <<base_rates, last_locator, reminders, form, last_quote,
                   form_enh, last_quote_enh, today, loaded>>

\* apply_date_change that also settles the new total as paid.
apply_date_change_settle(i, new_arrive, new_depart) ==
    LET rec == reservations[i]
        avail == is_available_for(reservations, new_arrive, new_depart, RES_ID(rec))
        q == quote_total(reservations, base_rates, today, new_arrive, new_depart,
                         rec.rtype, rec.total_locked,
                         rec.rtype \in {"Prepaid", "60-Day"})
    IN  /\ reservations' =
              IF new_depart <= new_arrive \/ ~avail.available
              THEN reservations
              ELSE Upd(i, [rec EXCEPT !.arrive = new_arrive,
                                      !.depart = new_depart,
                                      !.total_locked = q.total,
                                      !.paid_advance = q.total,
                                      !.nightly = q.nightly,
                                      !.change_note = q.change_note,
                                      !.status = IF rec.status = "Changing date"
                                                 THEN "Booked" ELSE rec.status])
        /\ UNCHANGED <<base_rates, last_locator, reminders, form, last_quote,
                       form_enh, last_quote_enh, today, loaded>>

apply_date_change(i, new_arrive, new_depart) ==
    LET rec == reservations[i]
        avail == is_available_for(reservations, new_arrive, new_depart, RES_ID(rec))
        q == quote_total(reservations, base_rates, today, new_arrive, new_depart,
                         rec.rtype, rec.total_locked,
                         rec.rtype \in {"Prepaid", "60-Day"})
    IN  /\ reservations' =
              IF new_depart <= new_arrive \/ ~avail.available
              THEN reservations
              ELSE Upd(i, [rec EXCEPT !.arrive = new_arrive,
                                      !.depart = new_depart,
                                      !.total_locked = q.total,
                                      !.nightly = q.nightly,
                                      !.change_note = q.change_note,
                                      !.status = IF rec.status = "Changing date"
                                                 THEN "Booked" ELSE rec.status])
        /\ UNCHANGED <<base_rates, last_locator, reminders, form, last_quote,
                       form_enh, last_quote_enh, today, loaded>>

process_prepayment(i, confirm) ==
    LET rec == reservations[i]
        amount == rec.total_locked - rec.paid_advance
    IN  /\ reservations' =
              IF \/ rec.paid_advance >= rec.total_locked
                 \/ rec.rtype \in {"Conventional", "Incentive"}
                 \/ ~confirm
              THEN reservations
              ELSE Upd(i, [rec EXCEPT
                       !.payments = Append(@, [date |-> today, amount |-> amount]),
                       !.paid_advance = rec.total_locked,
                       !.fully_paid = TRUE])
        /\ UNCHANGED <<base_rates, last_locator, reminders, form, last_quote,
                       form_enh, last_quote_enh, today, loaded>>

process_payment(i, confirm) ==
    LET rec == reservations[i]
        amount_due == rec.total_locked - rec.paid_advance
    IN  /\ reservations' =
              IF rec.fully_paid \/ rec.status = "Cancelled"
              THEN reservations
              ELSE IF amount_due <= 0
              THEN Upd(i, [rec EXCEPT !.fully_paid = TRUE])
              ELSE IF ~confirm
              THEN reservations
              ELSE Upd(i, [rec EXCEPT
                       !.payments = Append(@, [date |-> today, amount |-> amount_due]),
                       !.paid_advance = rec.total_locked,
                       !.fully_paid = TRUE])
        /\ UNCHANGED <<base_rates, last_locator, reminders, form, last_quote,
                       form_enh, last_quote_enh, today, loaded>>

\* _apply_payment_update that refuses negative amounts only.
apply_payment_update_zero(i, pay_date, pay_amt) ==
    LET rec == reservations[i]
        paid == rec.paid_advance + pay_amt
    IN  /\ reservations' =
              IF pay_date = NoDate \/ pay_amt < 0
              THEN reservations
              ELSE Upd(i, [rec EXCEPT
                       !.payments = Append(@, [date |-> pay_date, amount |-> pay_amt]),
                       !.paid_advance = paid,
                       !.fully_paid = IF paid >= rec.total_locked THEN TRUE ELSE @])
        /\ UNCHANGED <<base_rates, last_locator, reminders, form, last_quote,
                       form_enh, last_quote_enh, today, loaded>>

apply_payment_update(i, pay_date, pay_amt) ==
    LET rec == reservations[i]
        paid == rec.paid_advance + pay_amt
    IN  /\ reservations' =
              IF pay_date = NoDate \/ pay_amt <= 0
              THEN reservations
              ELSE Upd(i, [rec EXCEPT
                       !.payments = Append(@, [date |-> pay_date, amount |-> pay_amt]),
                       !.paid_advance = paid,
                       !.fully_paid = IF paid >= rec.total_locked THEN TRUE ELSE @])
        /\ UNCHANGED <<base_rates, last_locator, reminders, form, last_quote,
                       form_enh, last_quote_enh, today, loaded>>

\* cancel_reservation with the penalty written over the locked total.
cancel_reservation_relock(i, confirm) ==
    LET rec == reservations[i]
        penalty == first_night(rec, base_rates, rec.arrive)
        charged == /\ rec.rtype \in {"Conventional", "Incentive"}
                   /\ rec.arrive - today < PENALTY_WINDOW
    IN  /\ reservations' =
              IF rec.status = "Cancelled" \/ rec.checked_out \/ ~confirm
              THEN reservations
              ELSE Upd(i, [rec EXCEPT
                       !.no_show_penalty = IF charged THEN penalty ELSE @,
                       !.total_locked = IF charged THEN penalty ELSE @,
                       !.paid_advance = IF charged THEN Max(@, penalty) ELSE @,
                       !.status = "Cancelled"])
        /\ UNCHANGED <<base_rates, last_locator, reminders, form, last_quote,
                       form_enh, last_quote_enh, today, loaded>>

\* cancel_reservation that books the penalty as the amount paid.
cancel_reservation_penalty_only(i, confirm) ==
    LET rec == reservations[i]
        penalty == first_night(rec, base_rates, rec.arrive)
        charged == /\ rec.rtype \in {"Conventional", "Incentive"}
                   /\ rec.arrive - today < PENALTY_WINDOW
    IN  /\ reservations' =
              IF rec.status = "Cancelled" \/ rec.checked_out \/ ~confirm
              THEN reservations
              ELSE Upd(i, [rec EXCEPT
                       !.no_show_penalty = IF charged THEN penalty ELSE @,
                       !.paid_advance = IF charged THEN penalty ELSE @,
                       !.status = "Cancelled"])
        /\ UNCHANGED <<base_rates, last_locator, reminders, form, last_quote,
                       form_enh, last_quote_enh, today, loaded>>

cancel_reservation(i, confirm) ==
    LET rec == reservations[i]
        penalty == first_night(rec, base_rates, rec.arrive)
        charged == /\ rec.rtype \in {"Conventional", "Incentive"}
                   /\ rec.arrive - today < PENALTY_WINDOW
    IN  /\ reservations' =
              IF rec.status = "Cancelled" \/ rec.checked_out \/ ~confirm
              THEN reservations
              ELSE Upd(i, [rec EXCEPT
                       !.no_show_penalty = IF charged THEN penalty ELSE @,
                       !.paid_advance = IF charged THEN Max(@, penalty) ELSE @,
                       !.status = "Cancelled"])
        /\ UNCHANGED <<base_rates, last_locator, reminders, form, last_quote,
                       form_enh, last_quote_enh, today, loaded>>

\* check_in_guest without the test of the assigned room.
check_in_guest_noroom(i) ==
    LET rec == reservations[i]
    IN  /\ reservations' =
              IF \/ rec.status = "In-House"
                 \/ rec.status = "Cancelled"
              THEN reservations
              ELSE Upd(i, [rec EXCEPT !.status = "In-House",
                                      !.checked_in = TRUE,
                                      !.check_in_date = today])
        /\ UNCHANGED <<base_rates, last_locator, reminders, form, last_quote,
                       form_enh, last_quote_enh, today, loaded>>

check_in_guest(i) ==
    LET rec == reservations[i]
    IN  /\ reservations' =
              IF \/ rec.status = "In-House"
                 \/ rec.status = "Cancelled"
                 \/ rec.assigned_room = ""
              THEN reservations
              ELSE Upd(i, [rec EXCEPT !.status = "In-House",
                                      !.checked_in = TRUE,
                                      !.check_in_date = today])
        /\ UNCHANGED <<base_rates, last_locator, reminders, form, last_quote,
                       form_enh, last_quote_enh, today, loaded>>

check_out_guest(i, confirm) ==
    LET rec == reservations[i]
        final_payment == IF rec.rtype \in {"Conventional", "Incentive"}
                         THEN rec.total_locked - rec.paid_advance ELSE 0
        paying == final_payment > 0
    IN  /\ reservations' =
              IF rec.status # "In-House" \/ ~confirm
              THEN reservations
              ELSE Upd(i, [rec EXCEPT
                       !.payments = IF paying
                                    THEN Append(@, [date |-> today,
                                                    amount |-> final_payment])
                                    ELSE @,
                       !.paid_advance = IF paying THEN rec.total_locked ELSE @,
                       !.fully_paid = IF paying THEN TRUE ELSE @,
                       !.status = "Checked-out",
                       !.checked_out = TRUE])
        /\ UNCHANGED <<base_rates, last_locator, reminders, form, last_quote,
                       form_enh, last_quote_enh, today, loaded>>

(***************************************************************************)
(* uiMakeReservation.py: the daily batch and the base rate administration  *)
(***************************************************************************)
Reminded(r, now) ==
    r.status = "Booked" /\ r.rtype = "60-Day" /\ r.arrive - now = REMINDER_OFFSET

\* The auto-cancel test without the look at paid_advance.
AutoCancelled_paid(r, now) ==
    /\ r.status = "Booked" /\ r.rtype = "60-Day"
    /\ r.arrive - now = AUTOCANCEL_OFFSET

AutoCancelled(r, now) ==
    /\ r.status = "Booked" /\ r.rtype = "60-Day"
    /\ r.arrive - now = AUTOCANCEL_OFFSET /\ r.paid_advance = 0

NoShowed(r, now) ==
    r.status = "Booked" /\ r.arrive = now - 1 /\ ~r.checked_in

\* One record through the three sweeps of run_daily_tasks, in their order.
Swept(r, rates, now) ==
    LET c == IF AutoCancelled(r, now) THEN [r EXCEPT !.status = "Cancelled"] ELSE r
    IN  IF NoShowed(c, now)
        THEN [c EXCEPT !.no_show_penalty = first_night(c, rates, now - 1),
                       !.status = "Cancelled",
                       !.cancellation_reason = "No-show"]
        ELSE c

\* ISO(res["arrive"]) (dt.date.fromisoformat) returns a date; on any other
\* string it raises ValueError, which nothing in the batch catches.
Parses(d) == d >= 0

\* The records at which the first two sweeps call ISO and raise.
Raises60(res) ==
    {i \in 1..Len(res) : /\ res[i].status = "Booked" /\ res[i].rtype = "60-Day"
                         /\ ~Parses(res[i].arrive)}

\* A record after the auto-cancel sweep.
Swept60(r, now) == IF AutoCancelled(r, now) THEN [r EXCEPT !.status = "Cancelled"] ELSE r

\* The records at which the no-show sweep calls ISO and raises.
RaisesNoShow(res, now) ==
    {i \in 1..Len(res) : /\ Swept60(res[i], now).status = "Booked"
                         /\ ~Parses(res[i].arrive)}

First(S) == CHOOSE i \in S : \A j \in S : i <= j

\* The three sweeps in their order.  stop1 is the record at which the reminder
\* sweep raises and stop3 the record at which the no-show sweep does; a sweep
\* that raises has worked on the records before that one, and the sweeps after
\* it and save_state do not run.
run_daily_tasks(res, rem, rates, now) ==
    LET n == Len(res)
        bad60 == Raises60(res)
        bad3 == RaisesNoShow(res, now)
        stop1 == IF bad60 = {} THEN n + 1 ELSE First(bad60)
        stop3 == IF bad60 # {} THEN 1 ELSE IF bad3 = {} THEN n + 1 ELSE First(bad3)
        hit == {i \in 1..(stop1 - 1) : Reminded(res[i], now)}
        locs == {RES_ID(res[i]) : i \in hit}
    IN  [reservations |->
            [i \in 1..n |-> IF bad60 # {} THEN res[i]
                            ELSE IF i < stop3 THEN Swept(res[i], rates, now)
                            ELSE Swept60(res[i], now)],
         reminders |-> {p \in rem : p[1] \notin locs} \cup {<<l, now>> : l \in locs},
         tasks |-> Cardinality(hit)
                   + (IF bad60 # {} THEN 0
                      ELSE Cardinality({i \in 1..n : AutoCancelled(res[i], now)})
                           + Cardinality({i \in 1..(stop3 - 1) :
                                            NoShowed(Swept60(res[i], now), now)})),
         raised |-> bad60 # {} \/ bad3 # {}]

\* Run Daily Tasks.  run_daily_tasks works on self.state_data in place and
\* saves it when it has performed a task; refresh_res_list then loads the file
\* again.  When run_daily_tasks raises, neither happens: Tk reports the
\* exception of the callback and the window stays open.
run_daily_tasks_ui ==
    LET out == run_daily_tasks(reservations, reminders, base_rates, today)
        saves == ~out.raised /\ out.tasks > 0
        kept == out.raised \/ saves
    IN  /\ reservations' = IF kept THEN out.reservations ELSE data_file.reservations
        /\ reminders' = IF kept THEN out.reminders ELSE data_file.reminders
        /\ data_file' = IF saves
                        THEN [state_data EXCEPT !.reservations = out.reservations,
                                                !.reminders = out.reminders]
                        ELSE data_file
        /\ UNCHANGED <<base_rates, last_locator, form, last_quote, form_enh,
                       last_quote_enh, today, loaded>>

\* The list is filled from the file: self.state_data = load_state().
refresh_res_list ==
    /\ reservations' = data_file.reservations
    /\ base_rates' = data_file.base_rates
    /\ last_locator' = data_file.last_locator
    /\ reminders' = data_file.reminders
    /\ UNCHANGED <<form, last_quote, form_enh, last_quote_enh, today, loaded>>

add_rate(d, r) ==
    /\ base_rates' = IF d \in DOMAIN base_rates THEN base_rates
                     ELSE [x \in DOMAIN base_rates \cup {d} |->
                              IF x = d THEN r ELSE base_rates[x]]
    /\ UNCHANGED <<reservations, last_locator, reminders, form, last_quote,
                   form_enh, last_quote_enh, today, loaded>>

update_rate(d, r) ==
    /\ base_rates' = IF d \notin DOMAIN base_rates THEN base_rates
                     ELSE [base_rates EXCEPT ![d] = r]
    /\ UNCHANGED <<reservations, last_locator, reminders, form, last_quote,
                   form_enh, last_quote_enh, today, loaded>>

delete_rate(d) ==
    /\ base_rates' = [x \in DOMAIN base_rates \ {d} |-> base_rates[x]]
    /\ UNCHANGED <<reservations, last_locator, reminders, form, last_quote,
                   form_enh, last_quote_enh, today, loaded>>

(***************************************************************************)
(* uiMakeReservation_enhanced.py                                           *)
(***************************************************************************)
\* The form after the operator typed the dates: the write traces
\* (_on_date_change, _update_nights_only, _on_days_change) keep num_days.
Typed_enh(arr, dep, rtype) ==
    [arr |-> arr, dep |-> dep, rtype |-> rtype,
     num_days |-> IF dep - arr > 0 THEN dep - arr ELSE form_enh.num_days]

on_quote_enh(arr, dep, rtype) ==
    LET q == quote_total_enh(reservations, base_rates, today, arr, dep, rtype)
    IN  /\ form_enh' = Typed_enh(arr, dep, rtype)
        /\ last_quote_enh' = IF QuoteRaises(arr, dep) THEN last_quote_enh
                             ELSE [set |-> TRUE, total |-> q.total,
                                   nightly |-> q.nightly, eligible |-> q.eligible,
                                   occ |-> q.occ]
        /\ UNCHANGED <<reservations, base_rates, last_locator, reminders, form,
                       last_quote, today, loaded>>

validate_number_of_days(days) == MIN_DAYS <= days /\ days <= MAX_DAYS

validate_arrival_date(arr, rtype, now) ==
    /\ arr > now
    /\ rtype = "Prepaid" => arr - now >= PREPAID_ADVANCE
    /\ rtype = "60-Day" => arr - now >= SIXTY_ADVANCE

on_save_enh(guest_ok, card_ok, room) ==
    LET f == form_enh
        valid == /\ guest_ok /\ card_ok
                 /\ validate_number_of_days(f.num_days)
                 /\ validate_arrival_date(f.arr, f.rtype, today)
        adv == IF f.rtype \in {"Prepaid", "60-Day"} THEN last_quote_enh.total ELSE 0
        loc == next_locator(last_locator)
    IN  IF ~valid \/ ~last_quote_enh.set
        THEN UNCHANGED vars
        ELSE /\ last_locator' = loc
             /\ reservations' = Append(reservations,
                    [Record(FormatLocator(loc), f.arr, f.dep, f.rtype, "Booked", room,
                            adv, last_quote_enh.total, last_quote_enh.nightly,
                            FALSE, today)
                     EXCEPT !.payments = <<>>])
             /\ form_enh' = InitForm_enh(today)
             /\ last_quote_enh' = NoQuote
             /\ UNCHANGED <<base_rates, reminders, form, last_quote, today, loaded>>

update_selected_enh(i, status, room) ==
    /\ reservations' = Upd(i, [reservations[i] EXCEPT !.status = status,
                                                       !.assigned_room = room])
    /\ UNCHANGED <<base_rates, last_locator, reminders, form, last_quote,
                   form_enh, last_quote_enh, today, loaded>>

cancel_selected(i, confirm) ==
    LET r == reservations[i]
        fee == IF r.rtype \in {"Prepaid", "60-Day"}
               THEN (IF r.arrive - today <= AUTOCANCEL_OFFSET THEN r.total_locked ELSE 0)
               ELSE IF r.rtype \in {"Conventional", "Incentive"}
               THEN (IF r.nightly # <<>> THEN r.nightly[1].rate ELSE 0)
               ELSE r.cancellation_fee
    IN  /\ reservations' =
              IF ~confirm THEN reservations
              ELSE Upd(i, [r EXCEPT !.status = "Cancelled", !.cancellation_fee = fee])
        /\ UNCHANGED <<base_rates, last_locator, reminders, form, last_quote,
                       form_enh, last_quote_enh, today, loaded>>

(***************************************************************************)
(* uiCheckout_enhanced.py                                                  *)
(***************************************************************************)
assign_room_cio(i, room) ==
    /\ reservations' = IF room = "" THEN reservations
                       ELSE Upd(i, [reservations[i] EXCEPT !.assigned_room = room])
    /\ UNCHANGED <<base_rates, last_locator, reminders, form, last_quote,
                   form_enh, last_quote_enh, today, loaded>>

check_in_cio(i) ==
    LET r == reservations[i]
    IN  /\ reservations' =
              IF r.status # "Booked" \/ r.assigned_room = ""
              THEN reservations
              ELSE Upd(i, [r EXCEPT !.status = "In-House", !.check_in_date = today])
        /\ UNCHANGED <<base_rates, last_locator, reminders, form, last_quote,
                       form_enh, last_quote_enh, today, loaded>>

check_out_cio(i, confirm) ==
    LET r == reservations[i]
        balance == r.total_locked - r.paid_advance
    IN  /\ reservations' =
              IF r.status # "In-House" \/ (balance > 0 /\ ~confirm)
              THEN reservations
              ELSE Upd(i, [r EXCEPT !.status = "Checked-out",
                                    !.paid_at_checkout = balance,
                                    !.final_paid = r.total_locked])
        /\ UNCHANGED <<base_rates, last_locator, reminders, form, last_quote,
                       form_enh, last_quote_enh, today, loaded>>

mark_no_show_cio(i, confirm) ==
    LET r == reservations[i]
        fee == IF r.rtype \in {"Conventional", "Incentive"}
               THEN (IF r.nightly # <<>> THEN r.nightly[1].rate ELSE 0)
               ELSE IF r.rtype \in {"Prepaid", "60-Day"} THEN r.total_locked
               ELSE r.no_show_fee
    IN  /\ reservations' =
              IF r.status # "Booked" \/ ~confirm
              THEN reservations
              ELSE Upd(i, [r EXCEPT !.status = "No-Show", !.no_show_fee = fee])
        /\ UNCHANGED <<base_rates, last_locator, reminders, form, last_quote,
                       form_enh, last_quote_enh, today, loaded>>

(***************************************************************************)
(* The calendar                                                            *)
(***************************************************************************)
AdvanceDay ==
    /\ today < Day0 + MaxToday
    /\ today' = today + 1
    /\ UNCHANGED <<reservations, base_rates, last_locator, reminders, form,
                   last_quote, form_enh, last_quote_enh, loaded>>

(***************************************************************************)
(* What the operator enters                                                *)
(***************************************************************************)
ArriveDays == {Day0, HotDay}
ArriveDays_enh == {HotDay, Day0 + PREPAID_ADVANCE}
SaveStatuses == {"Booked"}
Nights == 1..MaxNights
Rooms == {"", "101"}
RateDays == {HotDay}
RateChoices == {29999}
PayAmounts == {0 - 10000, 0, 10000}
ManualIds == {EmptyId,
              FormatLocator(FIRST_LOCATOR - 1),
              FormatLocator(FIRST_LOCATOR + 1),
              FormatLocator(FIRST_LOCATOR + 3),
              [pfx |-> "OO", digits |-> <<0>> \o DigitsOf(FIRST_LOCATOR + 2)],
              [pfx |-> "R", digits |-> DigitsOf(FIRST_LOCATOR + 1)]}

\* save_state that writes only over the file it loaded.
save_state_unchanged_file ==
    data_file' = IF state_data' # state_data /\ data_file = state_data
                 THEN state_data' ELSE data_file

\* A handler that changed state_data ends in save_state(self.state_data); one
\* that refused or only read it leaves the file alone.
save_state == data_file' = IF state_data' # state_data THEN state_data' ELSE data_file

\* A handler that works on the store: a browser button, the batch, the rate
\* administration.
Row(A) == ops < MaxOps /\ ops' = ops + 1 /\ A /\ save_state /\ UNCHANGED terminal2

\* A step of a reservation form or of the clock.
Desk(A) == UNCHANGED ops /\ A /\ save_state /\ UNCHANGED terminal2

\* A handler that sees to the file itself.
Saving(A) == ops < MaxOps /\ ops' = ops + 1 /\ A /\ UNCHANGED terminal2

CanSave == Len(reservations) < loaded + MaxNew

Next ==
    \/ /\ CanSave /\ ~last_quote_enh.set
       /\ \E a \in ArriveDays, n \in Nights, t \in RTYPES :
             Desk(on_quote(a, a + n, NoDays, t))
    \/ /\ CanSave
       /\ \E s \in SaveStatuses, room \in Rooms :
             Desk(on_save(TRUE, TRUE, form.dep - form.arr, s, room, TRUE, EmptyId))
    \/ \E i \in Rows, s \in STATUSES, room \in Rooms : Row(update_selected(i, s, room))
    \/ \E i \in Rows, a \in ArriveDays, n \in Nights :
          Row(apply_date_change(i, a, a + n))
    \/ \E i \in Rows, c \in BOOLEAN : Row(process_prepayment(i, c))
    \/ \E i \in Rows, c \in BOOLEAN : Row(process_payment(i, c))
    \/ \E i \in Rows, amt \in PayAmounts :
          /\ Len(reservations[i].payments) < MaxPayments
          /\ Row(apply_payment_update(i, today, amt))
    \/ \E i \in Rows, c \in BOOLEAN : Row(cancel_reservation(i, c))
    \/ \E i \in Rows : Row(check_in_guest(i))
    \/ \E i \in Rows, c \in BOOLEAN : Row(check_out_guest(i, c))
    \/ Saving(run_daily_tasks_ui)
    \/ \E d \in RateDays, r \in RateChoices : Row(add_rate(d, r))
    \/ \E d \in RateDays, r \in RateChoices : Row(update_rate(d, r))
    \/ \E d \in RateDays : Row(delete_rate(d))
    \/ /\ CanSave /\ ~last_quote.set
       /\ \E a \in ArriveDays_enh, n \in Nights, t \in RTYPES :
             Desk(on_quote_enh(a, a + n, t))
    \/ /\ CanSave
       /\ \E room \in Rooms : Desk(on_save_enh(TRUE, TRUE, room))
    \/ \E i \in Rows, s \in STATUSES_enh, room \in Rooms :
          Row(update_selected_enh(i, s, room))
    \/ \E i \in Rows, c \in BOOLEAN : Row(cancel_selected(i, c))
    \/ \E i \in Rows, room \in Rooms : Row(assign_room_cio(i, room))
    \/ \E i \in Rows : Row(check_in_cio(i))
    \/ \E i \in Rows, c \in BOOLEAN : Row(check_out_cio(i, c))
    \/ \E i \in Rows, c \in BOOLEAN : Row(mark_no_show_cio(i, c))
    \/ Desk(AdvanceDay)

Spec == Init /\ [][Next]_vars

(***************************************************************************)
(* The reservation forms alone: saves with auto-assigned locators and with *)
(* reservation IDs the operator types.                                     *)
(***************************************************************************)
MaxSaves == 3

NextIds ==
    \/ Desk(on_quote(HotDay, HotDay + 1, NoDays, "Conventional"))
    \/ /\ Len(reservations) < MaxSaves
       /\ \E auto \in BOOLEAN, manual \in ManualIds :
             Desk(on_save(TRUE, TRUE, form.dep - form.arr, "Booked", "", auto,
                          IF auto THEN EmptyId ELSE manual))
    \/ Desk(on_quote_enh(HotDay, HotDay + 1, "Conventional"))
    \/ /\ Len(reservations) < MaxSaves
       /\ Desk(on_save_enh(TRUE, TRUE, ""))

SpecIds == Init /\ [][NextIds]_vars

(***************************************************************************)
(* The reservations browser on a full house.                               *)
(***************************************************************************)
FullArrive == {HotDay - 1, HotDay, HotDay + 1}
FullTypes == {"Conventional", "Prepaid"}
FullStatuses == {"Booked", "Checked-out"}

NextFull ==
    \/ /\ Len(reservations) < ROOM_COUNT + MaxNew
       /\ \E a \in FullArrive, n \in Nights, t \in FullTypes :
             Desk(on_quote(a, a + n, NoDays, t))
    \/ /\ Len(reservations) < ROOM_COUNT + MaxNew
       /\ Desk(on_save(TRUE, TRUE, form.dep - form.arr, "Booked", "", TRUE, EmptyId))
    \/ \E i \in Rows, a \in FullArrive, n \in Nights :
          Row(apply_date_change(i, a, a + n))
    \/ \E i \in Rows, c \in BOOLEAN : Row(cancel_reservation(i, c))
    \/ \E i \in Rows, st \in FullStatuses : Row(update_selected(i, st, ""))

SpecFull == InitFull /\ [][NextFull]_vars

(***************************************************************************)
(* The daily batch: reservations that arrive today, AUTOCANCEL_OFFSET and  *)
(* REMINDER_OFFSET days from now, payments, check-in, the no-show button   *)
(* of the check-in/out screen, the batch and the clock.                    *)
(***************************************************************************)
MaxBatch == 2        \* reservations saved before the batch runs

BatchArrive == {Day0, Day0 + AUTOCANCEL_OFFSET, Day0 + REMINDER_OFFSET}

NextBatch ==
    \/ /\ Len(reservations) < MaxBatch
       /\ \E a \in BatchArrive, t \in RTYPES : Desk(on_quote(a, a + 1, NoDays, t))
    \/ /\ Len(reservations) < MaxBatch
       /\ \E room \in Rooms :
             Desk(on_save(TRUE, TRUE, form.dep - form.arr, "Booked", room, TRUE,
                          EmptyId))
    \/ \E i \in Rows, amt \in PayAmounts :
          /\ Len(reservations[i].payments) < MaxPayments
          /\ Row(apply_payment_update(i, today, amt))
    \/ \E i \in Rows : Row(check_in_guest(i))
    \/ \E i \in Rows, c \in BOOLEAN : Row(mark_no_show_cio(i, c))
    \/ Saving(run_daily_tasks_ui)
    \/ Desk(AdvanceDay)

SpecBatch == Init /\ [][NextBatch]_vars

(***************************************************************************)
(* The quote engine on a house that is partly booked.  The data file holds *)
(* k Conventional reservations over the nights QuoteFrom .. QuoteUntil - 1 *)
(* (saved by on_save on Day0, which checks no availability), k at 0 %, at  *)
(* EXAMPLE_OCC_PCT, at INCENTIVE_OCC_PCT of the rooms and one room above;  *)
(* the rate table is the seeded one, or the seeded one after Delete Rate   *)
(* on the first nights of the span, which are then priced DEFAULT_RATE.    *)
(***************************************************************************)
EXAMPLE_OCC_PCT == 40
EXAMPLE_DAYS_OUT == 10
EXAMPLE_NIGHTS == 3

QuoteFrom == Day0 + EXAMPLE_DAYS_OUT
QuoteUntil == Day0 + INCENTIVE_DAYS + 1 + EXAMPLE_NIGHTS

OccLevels == {0, (EXAMPLE_OCC_PCT * ROOM_COUNT) \div 100,
              (INCENTIVE_OCC_PCT * ROOM_COUNT) \div 100,
              (INCENTIVE_OCC_PCT * ROOM_COUNT) \div 100 + 1}

QuoteStore(k) ==
    LET q == quote_total(<<>>, SeedRates, Day0, QuoteFrom, QuoteUntil,
                         "Conventional", 0, FALSE)
    IN  [j \in 1..k |->
            Record(FormatLocator(FIRST_LOCATOR + j), QuoteFrom, QuoteUntil,
                   "Conventional", "Booked", "", 0, q.total, q.nightly, FALSE, Day0)]

FlatRates ==
    [d \in DOMAIN SeedRates \ (QuoteFrom .. (QuoteFrom + EXAMPLE_NIGHTS - 1)) |->
        SeedRates[d]]

InitQuote ==
    /\ \E k \in OccLevels :
          /\ reservations = QuoteStore(k)
          /\ loaded = k
          /\ last_locator = FIRST_LOCATOR + k
    /\ base_rates \in {SeedRates, FlatRates}
    /\ reminders = {}
    /\ form = InitForm
    /\ last_quote = NoQuote
    /\ form_enh = InitForm_enh(Day0)
    /\ last_quote_enh = NoQuote
    /\ today = Day0
    /\ ops = 0
    /\ data_file = state_data
    /\ terminal2 = terminal

QuoteArrive == {QuoteFrom, Day0 + INCENTIVE_DAYS, Day0 + INCENTIVE_DAYS + 1}
QuoteNights == {1, EXAMPLE_NIGHTS}

NextQuote ==
    \/ /\ CanSave /\ ~last_quote_enh.set
       /\ \E a \in QuoteArrive, n \in QuoteNights, t \in RTYPES :
             Desk(on_quote(a, a + n, NoDays, t))
    \/ /\ CanSave /\ ~last_quote.set
       /\ \E a \in QuoteArrive, n \in QuoteNights, t \in RTYPES :
             Desk(on_quote_enh(a, a + n, t))
    \/ /\ CanSave
       /\ Desk(on_save(TRUE, TRUE, form.dep - form.arr, "Booked", "", TRUE, EmptyId))
    \/ \E i \in Rows, a \in QuoteArrive, n \in QuoteNights :
          Row(apply_date_change(i, a, a + n))
    \/ Desk(AdvanceDay)

SpecQuote == InitQuote /\ [][NextQuote]_vars

(***************************************************************************)
(* The reservation forms with the fields edited between Get Quote and      *)
(* Confirm & Save.  A form keeps its last quote while the operator types:  *)
(* uiMakeReservation.py has no trace on its fields, and the traces of      *)
(* uiMakeReservation_enhanced.py keep the Number of Days but not the quote.*)
(***************************************************************************)
type_form(arr, dep, rtype) ==
    /\ form' = [arr |-> arr, dep |-> dep, rtype |-> rtype]
    /\ UNCHANGED <<reservations, base_rates, last_locator, reminders, last_quote,
                   form_enh, last_quote_enh, today, loaded>>

type_enh(arr, dep, rtype) ==
    /\ form_enh' = Typed_enh(arr, dep, rtype)
    /\ UNCHANGED <<reservations, base_rates, last_locator, reminders, form,
                   last_quote, last_quote_enh, today, loaded>>

FormArrive == {HotDay, HotDay + 1}
FormDepart == {HotDay, HotDay + 1, HotDay + 2}
FormTypes == {"Conventional", "Incentive"}
FormStatuses == {"Booked", "In-House", "Cancelled"}

NextForms ==
    \/ /\ CanSave /\ ~last_quote_enh.set
       /\ \E a \in FormArrive, d \in FormDepart, t \in FormTypes :
             Desk(type_form(a, d, t))
    \/ /\ CanSave /\ ~last_quote_enh.set
       /\ Desk(on_quote(form.arr, form.dep, NoDays, form.rtype))
    \/ /\ CanSave
       /\ \E st \in FormStatuses, n \in Nights :
             Desk(on_save(TRUE, TRUE, n, st, "", TRUE, EmptyId))
    \/ /\ CanSave /\ ~last_quote.set
       /\ \E a \in FormArrive, d \in FormDepart, t \in FormTypes :
             Desk(type_enh(a, d, t))
    \/ /\ CanSave /\ ~last_quote.set
       /\ Desk(on_quote_enh(form_enh.arr, form_enh.dep, form_enh.rtype))
    \/ /\ CanSave
       /\ Desk(on_save_enh(TRUE, TRUE, ""))
    \/ \E i \in Rows, a \in FormArrive, d \in FormDepart :
          Row(apply_date_change(i, a, d))

SpecForms == Init /\ [][NextForms]_vars

(***************************************************************************)
(* The daily batch on a data file that holds a record whose arrival date   *)
(* is no date: load_state takes the file as json.load returns it.          *)
(***************************************************************************)
BadDate == 0 - 2     \* a date string that fromisoformat rejects

LoadedArrive == {BadDate, Day0, Day0 + AUTOCANCEL_OFFSET, Day0 + REMINDER_OFFSET}
LoadedTypes == {"Conventional", "60-Day"}
MaxLoaded == 3

Loaded(k, a, t) ==
    Record(FormatLocator(FIRST_LOCATOR + k), a, IF Parses(a) THEN a + 1 ELSE Day0 + 1,
           t, "Booked", "", 0, DEFAULT_RATE,
           <<[date |-> IF Parses(a) THEN a ELSE Day0, rate |-> DEFAULT_RATE]>>,
           FALSE, Day0)

InitLoaded ==
    /\ \E a \in [1..MaxLoaded -> LoadedArrive], t \in [1..MaxLoaded -> LoadedTypes] :
          reservations = [k \in 1..MaxLoaded |-> Loaded(k, a[k], t[k])]
    /\ loaded = 0
    /\ base_rates = SeedRates
    /\ last_locator = FIRST_LOCATOR + MaxLoaded
    /\ reminders = {}
    /\ form = InitForm
    /\ last_quote = NoQuote
    /\ form_enh = InitForm_enh(Day0)
    /\ last_quote_enh = NoQuote
    /\ today = Day0
    /\ ops = 0
    /\ data_file = state_data
    /\ terminal2 = terminal

NextLoaded ==
    \/ Saving(run_daily_tasks_ui)
    \/ Desk(refresh_res_list)
    \/ \E i \in Rows, amt \in {x \in PayAmounts : x > 0} :
          /\ Len(reservations[i].payments) < MaxPayments
          /\ Row(apply_payment_update(i, today, amt))
    \/ Desk(AdvanceDay)

SpecLoaded == InitLoaded /\ [][NextLoaded]_vars

(***************************************************************************)
(* Two processes of uiMakeReservation.py (moduleRun starts one for every   *)
(* press of the button) on the same data file.  Each holds the state_data  *)
(* of its last load and saves the whole of it.                             *)
(***************************************************************************)
\* The operator moves to the other process.
Switch ==
    /\ reservations' = terminal2.state_data.reservations
    /\ base_rates' = terminal2.state_data.base_rates
    /\ last_locator' = terminal2.state_data.last_locator
    /\ reminders' = terminal2.state_data.reminders
    /\ form' = terminal2.form
    /\ last_quote' = terminal2.last_quote
    /\ terminal2' = terminal
    /\ UNCHANGED <<form_enh, last_quote_enh, today, loaded, ops, data_file>>

TwoArrive == {HotDay, HotDay + 1}
TwoRoom == "101"
MaxTwo == 2          \* reservations in the store of a process

NextTwo ==
    \/ /\ Len(reservations) < MaxTwo
       /\ \E a \in TwoArrive : Desk(on_quote(a, a + 1, NoDays, "Conventional"))
    \/ /\ Len(reservations) < MaxTwo
       /\ Desk(on_save(TRUE, TRUE, form.dep - form.arr, "Booked", TwoRoom, TRUE,
                       EmptyId))
    \/ \E i \in Rows : Row(cancel_reservation(i, TRUE))
    \/ \E i \in Rows : Row(check_in_guest(i))
    \/ Desk(refresh_res_list)
    \/ Switch

SpecTwo == Init /\ [][NextTwo]_vars

(***************************************************************************)
(* Stays at and beyond the limit of the Number of Days field, with the     *)
(* field and the two dates typed apart.                                    *)
(***************************************************************************)
SpanNights == {MIN_DAYS, MAX_DAYS_BASE, MAX_DAYS_BASE + 1}
SpanDays == {NoDays, MIN_DAYS, MAX_DAYS_BASE, MAX_DAYS_BASE + 1}
SpanTypes == {"Conventional", "Prepaid"}

NextSpan ==
    \/ /\ CanSave
       /\ \E n \in SpanNights, days \in SpanDays, t \in SpanTypes :
             Desk(on_quote(HotDay, HotDay + n, days, t))
    \/ /\ CanSave
       /\ \E days \in SpanDays \ {NoDays} :
             Desk(on_save(TRUE, TRUE, days, "Booked", "", TRUE, EmptyId))
    \/ \E i \in Rows, n \in SpanNights : Row(apply_date_change(i, HotDay, HotDay + n))
    \/ Desk(AdvanceDay)

SpecSpan == Init /\ [][NextSpan]_vars

(***************************************************************************)
(* Properties                                                              *)
(***************************************************************************)
\* The step is a date change of row i that the program applied.
DateChangeApplied(i) ==
    \E a \in ArriveDays, n \in Nights :
        /\ reservations'[i].arrive = a /\ reservations'[i].depart = a + n
        /\ is_available_for(reservations, a, a + n, RES_ID(reservations[i])).available
        /\ apply_date_change(i, a, a + n)

\* C1: once a reservation is saved, a step changes its total_locked or its
\* nightly snapshot only if the step is an applied date change of that
\* reservation, and that step writes both from one quote of the new span;
\* check-in, check-out, cancellation, no-show marking, payments, the daily
\* batch, update-selected and the base rate administration leave both alone.
C1_LockedFrame ==
    [][\A i \in 1..Len(reservations) :
          LET r == reservations[i]
              r2 == reservations'[i]
              q == quote_total(reservations, base_rates, today, r2.arrive, r2.depart,
                               r.rtype, r.total_locked,
                               r.rtype \in {"Prepaid", "60-Day"})
          IN  (r2.total_locked # r.total_locked \/ r2.nightly # r.nightly)
                 => /\ DateChangeApplied(i)
                    /\ r2.total_locked = q.total
                    /\ r2.nightly = q.nightly]_vars

\* A reservation whose dates were changed with the surcharge and that was
\* checked in afterwards: its locked total is still the one of the change.
C1_Witness ==
    \E i \in 1..Len(reservations) :
        /\ reservations[i].change_note # NoNote
        /\ reservations[i].checked_in
        /\ reservations[i].total_locked = reservations[i].change_note.new_110
        /\ reservations[i].total_locked # 0

\* C2: no two reservations of the store have the same locator, and a save
\* that assigns the locator itself (on_save with auto assign, on_save of the
\* enhanced form) appends a locator that no reservation of the store had.
C2_UniqueLocators ==
    /\ [](\A i, j \in 1..Len(reservations) :
             i # j => RES_ID(reservations[i]) # RES_ID(reservations[j]))
    /\ [][(/\ Len(reservations') = Len(reservations) + 1
           /\ RES_ID(reservations'[Len(reservations')]) = FormatLocator(last_locator')
           /\ last_locator' = next_locator(last_locator))
          => FormatLocator(last_locator') \notin Ids(reservations)]_vars

\* An ID typed with a leading zero moved the counter, and the next
\* auto-assigned locator was taken after it.
C2_Witness ==
    /\ Len(reservations) >= 2
    /\ reservations[1].id = [pfx |-> "OO", digits |-> <<0>> \o DigitsOf(FIRST_LOCATOR + 2)]
    /\ reservations[2].id = FormatLocator(FIRST_LOCATOR + 3)

C4_TerminalStatuses ==
    [][/\ Len(reservations') >= Len(reservations)
       /\ \A i \in 1..Len(reservations) :
             /\ RES_ID(reservations'[i]) = RES_ID(reservations[i])
             /\ reservations[i].status \in {"Cancelled", "No-Show"}
                   => reservations'[i].status = reservations[i].status]_vars

\* C5: the reservation a save appends has paid_advance equal to the quoted
\* total and fully_paid true when its type is Prepaid or 60-Day, and
\* paid_advance 0 and fully_paid false when it is Conventional or Incentive.
C5_AdvanceAtCreation ==
    [][Len(reservations') = Len(reservations) + 1
          => LET r == reservations'[Len(reservations')]
             IN  /\ r.rtype \in {"Prepaid", "60-Day"}
                       => r.paid_advance = r.total_locked /\ r.fully_paid
                 /\ r.rtype \in {"Conventional", "Incentive"}
                       => r.paid_advance = 0 /\ ~r.fully_paid]_vars

\* The step is a Cancel of row i that went through.
Cancels(i) ==
    /\ \E c \in BOOLEAN : cancel_reservation(i, c) \/ cancel_selected(i, c)
    /\ reservations[i].status # "Cancelled"
    /\ reservations'[i].status = "Cancelled"

\* C6: a Cancel of a Conventional or Incentive reservation whose arrival is
\* fewer than PENALTY_WINDOW days away records the first night's locked rate
\* as the fee and raises paid_advance to at least that amount; with the
\* arrival PENALTY_WINDOW or more days away it records no fee and leaves
\* paid_advance as it was.
C6_CancelPenalty ==
    [][\A i \in Rows :
          (Cancels(i) /\ reservations[i].rtype \in {"Conventional", "Incentive"})
             => LET r == reservations[i]
                    r2 == reservations'[i]
                    penalty == first_night(r, base_rates, r.arrive)
                IN  IF r.arrive - today < PENALTY_WINDOW
                    THEN /\ r2.no_show_penalty = penalty \/ r2.cancellation_fee = penalty
                         /\ r2.paid_advance = Max(r.paid_advance, penalty)
                    ELSE /\ r2.no_show_penalty = r.no_show_penalty
                         /\ r2.cancellation_fee = r.cancellation_fee
                         /\ r2.paid_advance = r.paid_advance]_vars

\* C7: a Cancel of a reservation whose status is Cancelled or Checked-out
\* leaves the reservation as it was.
C7_CancelRefused ==
    [][\A i \in Rows :
          (/\ reservations[i].status \in {"Cancelled", "Checked-out"}
           /\ \E c \in BOOLEAN : cancel_reservation(i, c) \/ cancel_selected(i, c))
             => reservations'[i] = reservations[i]]_vars

\* The plain total of a span for a reservation type: the nightly base rates
\* times the multiplier of the type, each rounded to cents, added up.
PlainTotal(arrive, depart, rtype) ==
    quote_total(reservations, base_rates, today, arrive, depart, rtype, 0, FALSE).total

\* C9: an applied date change of a reservation with locked total X to a span
\* with plain total Y locks round(Y * 1.10, 2) and reports the penalty
\* max(0, round(Y * 1.10, 2) - X) when the type is Prepaid or 60-Day; it
\* locks Y and reports the penalty 0 when the type is Conventional or
\* Incentive.
C9_ChangePremium ==
    [][\A i \in Rows :
          DateChangeApplied(i)
             => LET r == reservations[i]
                    r2 == reservations'[i]
                    X == r.total_locked
                    Y == PlainTotal(r2.arrive, r2.depart, r.rtype)
                    Y110 == RoundHalfEven(Y * 110, 100)
                    q == quote_total(reservations, base_rates, today, r2.arrive,
                                     r2.depart, r.rtype, X,
                                     r.rtype \in {"Prepaid", "60-Day"})
                IN  IF r.rtype \in {"Prepaid", "60-Day"}
                    THEN /\ r2.total_locked = Y110
                         /\ q.penalty_amount = Max(0, Y110 - X)
                         /\ r2.change_note.change_cost = Y110 - X
                    ELSE /\ r2.total_locked = Y
                         /\ q.penalty_amount = 0
                         /\ r2.change_note = NoNote]_vars

\* A Prepaid or 60-Day reservation moved to a span whose surcharged total is
\* below the original cost: the surcharged total is locked, no penalty is due.
C9_Witness ==
    \E i \in Rows :
        /\ reservations[i].rtype \in {"Prepaid", "60-Day"}
        /\ reservations[i].change_note.change_cost < 0
        /\ reservations[i].total_locked = reservations[i].change_note.new_110
        /\ reservations[i].total_locked
              = RoundHalfEven(SumRates(reservations[i].nightly) * 110, 100)

\* C10: an Apply Payment Update of a positive amount appends one entry with
\* the date and the amount to the payment history, adds the amount to
\* paid_advance, and leaves fully_paid true exactly when the new paid_advance
\* is at least total_locked.
C10_PaymentApplied ==
    [][\A i \in Rows : \A amt \in PayAmounts :
          (amt > 0 /\ apply_payment_update(i, today, amt))
             => LET r == reservations[i]
                    r2 == reservations'[i]
                IN  /\ r2.payments = Append(r.payments, [date |-> today, amount |-> amt])
                    /\ r2.paid_advance = r.paid_advance + amt
                    /\ r2.fully_paid <=> r2.paid_advance >= r2.total_locked]_vars

\* Some night of the span has no free room, the active reservations other
\* than the one with locator id counted.
NoRoomOn(start, end, id) ==
    \E d \in daterange(start, end) : Occupied(reservations, d, id) >= ROOM_COUNT

\* C8: an Apply Date Change to a span of which some night has no free room,
\* the reservation itself not counted, leaves the reservation as it was:
\* arrive, depart, total_locked, the nightly snapshot, change_note and status.
C8_FullSpanRefused ==
    [][\A i \in Rows : \A a \in FullArrive, n \in Nights :
          (/\ NoRoomOn(a, a + n, RES_ID(reservations[i]))
           /\ apply_date_change(i, a, a + n))
             => LET r == reservations[i]
                    r2 == reservations'[i]
                IN  /\ r2.arrive = r.arrive /\ r2.depart = r.depart
                    /\ r2.total_locked = r.total_locked /\ r2.nightly = r.nightly
                    /\ r2.change_note = r.change_note /\ r2.status = r.status]_vars

\* A reservation that stays clear of the full night HotDay after a handler
\* ran on the store, while the browser still takes an Apply Date Change.
C8_Witness ==
    \E i \in Rows :
        /\ ~Covers(reservations[i], HotDay)
        /\ IsActive(reservations[i])
        /\ NoRoomOn(HotDay, HotDay + 1, RES_ID(reservations[i]))
        /\ ops > 0 /\ ops < MaxOps

\* C11: the daily batch run a second time on the same day, right after a
\* first run and with nothing in between, performs no task; the reminder map
\* holds at most one entry per locator.
C11_BatchIdempotent ==
    LET once == run_daily_tasks(reservations, reminders, base_rates, today)
        twice == run_daily_tasks(once.reservations, once.reminders, base_rates, today)
    IN  /\ twice.tasks = 0
        /\ \A p, q \in once.reminders : p[1] = q[1] => p = q
        /\ \A p, q \in twice.reminders : p[1] = q[1] => p = q

\* The no-show fee of the policy: the first night's locked rate for a
\* Conventional or Incentive reservation, the locked total for a Prepaid or
\* 60-Day one.
NoShowFee(r) ==
    IF r.rtype \in {"Conventional", "Incentive"}
    THEN first_night(r, base_rates, r.arrive)
    ELSE r.total_locked

\* C12: a no-show marking (Mark No-Show of the check-in/out screen, the
\* no-show sweep of the daily batch) changes a reservation only if it is
\* Booked, sets its status to No-Show and records the fee of the policy; the
\* batch marks every Booked reservation that was to arrive yesterday and was
\* never checked in.
C12_NoShowMarking ==
    [][\A i \in 1..Len(reservations) :
          LET r == reservations[i]
              r2 == reservations'[i]
              marked == /\ r2.status = "No-Show"
                        /\ r2.no_show_fee = NoShowFee(r) \/ r2.no_show_penalty = NoShowFee(r)
          IN  /\ ((\E c \in BOOLEAN : mark_no_show_cio(i, c)) /\ r2 # r)
                    => r.status = "Booked" /\ marked
              /\ (run_daily_tasks_ui /\ NoShowed(r, today)) => marked]_vars

\* C13: a Check Out (of the reservations browser, of the check-in/out
\* screen) of a reservation that is not In-House leaves it as it was; one
\* that goes through sets the status Checked-out and, for a Conventional or
\* Incentive reservation with total_locked - paid_advance > 0, appends one
\* payment of exactly that amount, sets paid_advance to total_locked and
\* fully_paid to true.
C13_CheckOut ==
    [][\A i \in Rows :
          (\E c \in BOOLEAN : check_out_guest(i, c) \/ check_out_cio(i, c))
             => LET r == reservations[i]
                    r2 == reservations'[i]
                    due == r.total_locked - r.paid_advance
                IN  /\ r.status # "In-House" => r2 = r
                    /\ r2 # r
                          => /\ r2.status = "Checked-out"
                             /\ (r.rtype \in {"Conventional", "Incentive"} /\ due > 0)
                                   => /\ Len(r2.payments) = Len(r.payments) + 1
                                      /\ r2.payments[Len(r2.payments)].amount = due
                                      /\ SubSeq(r2.payments, 1, Len(r.payments)) = r.payments
                                      /\ r2.paid_advance = r.total_locked
                                      /\ r2.fully_paid]_vars

\* The booked room-nights of the span: for each night, the Booked and
\* In-House reservations that cover it, added up.
RECURSIVE BookedNights(_, _)
BookedNights(start, end) ==
    IF end <= start THEN 0
    ELSE Occupied(reservations, start, EmptyId) + BookedNights(start + 1, end)

\* The terms of the incentive for a span.
IncentiveTerms(arrive, depart) ==
    /\ arrive - today <= INCENTIVE_DAYS
    /\ BookedNights(arrive, depart) * 100
          <= INCENTIVE_OCC_PCT * (depart - arrive) * ROOM_COUNT

\* The quote q is right about a span and a type: eligible exactly under the
\* terms of the incentive, and for the Incentive type every night priced at
\* 80 % of the base rate when eligible and at 100 % when not.
QuoteFollowsTerms(q, arrive, depart, rtype) ==
    /\ q.eligible <=> IncentiveTerms(arrive, depart)
    /\ rtype = "Incentive"
          => /\ Len(q.nightly) = depart - arrive
             /\ \A k \in 1..Len(q.nightly) :
                   q.nightly[k].rate =
                      RoundHalfEven(base_rate(base_rates, arrive + k - 1)
                                       * (IF IncentiveTerms(arrive, depart)
                                          THEN 80 ELSE 100), 100)
             /\ q.total = SumRates(q.nightly)

\* C14: every quote a form takes (Get Quote of either reservation form) is
\* eligible exactly when the arrival is at most INCENTIVE_DAYS days away and
\* the occupancy of the span is at most INCENTIVE_OCC_PCT percent, and an
\* Incentive quote is priced at 80 % when eligible and at 100 % when not.
C14_IncentiveTerms ==
    [][/\ last_quote' # last_quote
             => QuoteFollowsTerms(last_quote', form'.arr, form'.dep, form'.rtype)
       /\ (last_quote_enh' # last_quote_enh /\ last_quote_enh'.set)
             => QuoteFollowsTerms(last_quote_enh', form_enh'.arr, form_enh'.dep,
                                  form_enh'.rtype)]_vars

\* The example of the specification: base rate 300.00, three nights, arrival
\* ten days out, occupancy 0.40, type Incentive: eligible, total 720.00.
C14_Witness ==
    /\ last_quote.set /\ form.rtype = "Incentive"
    /\ form.arr = today + EXAMPLE_DAYS_OUT /\ form.dep = form.arr + EXAMPLE_NIGHTS
    /\ \A d \in form.arr .. (form.dep - 1) : base_rate(base_rates, d) = DEFAULT_RATE
    /\ last_quote.occ.num * 100 = EXAMPLE_OCC_PCT * last_quote.occ.den
    /\ last_quote.eligible
    /\ last_quote.total = 72000

\* What a quote is asked for: a span, a type and whether the quote is for a
\* date change (of a reservation locked at DEFAULT_RATE).
QuoteInputs ==
    [arrive : QuoteArrive, nights : QuoteNights, rtype : RTYPES, is_change : BOOLEAN]

QuoteOf(x) ==
    quote_total(reservations, base_rates, today, x.arrive, x.arrive + x.nights,
                x.rtype, IF x.is_change THEN DEFAULT_RATE ELSE 0, x.is_change)

QuoteOf_enh(x) ==
    quote_total_enh(reservations, base_rates, today, x.arrive, x.arrive + x.nights,
                    x.rtype)

\* C15 as the specification states it: for every valid span, every
\* reservation type and both values of is_change, the total of a quote is the
\* sum of the values of its nightly snapshot, rounded to cents.
C15_TotalIsSnapshotSum ==
    \A x \in QuoteInputs :
        LET q == QuoteOf(x)
            e == QuoteOf_enh(x)
        IN  /\ q.total = SumRates(q.nightly)
            /\ e.total = SumRates(e.nightly)

\* C15: the total of a quote is the sum of the values of its nightly
\* snapshot, rounded to cents, except for a date change of a Prepaid or
\* 60-Day reservation, where it is that sum times 1.10, rounded to cents.
C15_TotalFromSnapshot ==
    \A x \in QuoteInputs :
        LET q == QuoteOf(x)
            e == QuoteOf_enh(x)
        IN  /\ Len(q.nightly) = x.nights /\ Len(e.nightly) = x.nights
            /\ q.total =
                  IF x.is_change /\ x.rtype \in {"Prepaid", "60-Day"}
                  THEN RoundHalfEven(SumRates(q.nightly) * 110, 100)
                  ELSE SumRates(q.nightly)
            /\ e.total = SumRates(e.nightly)

\* A Prepaid or 60-Day reservation after an applied date change: the locked
\* total is the surcharged one and differs from the sum of the snapshot.
C15_Witness ==
    \E i \in Rows :
        /\ reservations[i].rtype \in {"Prepaid", "60-Day"}
        /\ reservations[i].change_note # NoNote
        /\ reservations[i].total_locked
              = RoundHalfEven(SumRates(reservations[i].nightly) * 110, 100)
        /\ reservations[i].total_locked # SumRates(reservations[i].nightly)

\* The free rooms of night d: the capacity minus the Booked and In-House
\* reservations that cover d, the one with locator exclude left out.
RoomsFree(d, exclude) ==
    ROOM_COUNT - Cardinality({i \in 1..Len(reservations) :
                                 /\ reservations[i].arrive <= d
                                 /\ d < reservations[i].depart
                                 /\ reservations[i].status \in {"Booked", "In-House"}
                                 /\ reservations[i].id # exclude})

\* C16: the availability check of a span answers available exactly when the
\* least number of free rooms over the nights of the span is above 0 and
\* returns that least number; a span with a night booked at full capacity
\* gives (FALSE, 0) and an empty span gives (TRUE, ROOM_COUNT).
C16_Availability ==
    \A a \in FullArrive, n \in 0..MaxNights :
       \A exclude \in {EmptyId} \cup {RES_ID(reservations[i]) : i \in Rows} :
          LET out == is_available_for(reservations, a, a + n, exclude)
              least == CHOOSE m \in {RoomsFree(d, exclude) : d \in a .. (a + n - 1)} :
                          \A d \in a .. (a + n - 1) : m <= RoomsFree(d, exclude)
          IN  IF n = 0
              THEN out = [available |-> TRUE, min_available |-> ROOM_COUNT]
              ELSE /\ out.available <=> least > 0
                   /\ out.min_available = least
                   /\ (\E d \in a .. (a + n - 1) : RoomsFree(d, exclude) = 0)
                         => out = [available |-> FALSE, min_available |-> 0]

\* C17: a check-in (Check In of the reservations browser, Check In of the
\* check-in/out screen) changes a reservation only if its status is Booked
\* and it has a room, and then moves it to In-House; a Checked-out, Cancelled
\* or No-Show reservation is never moved to In-House by a check-in.
C17_CheckInFromBooked ==
    [][\A i \in Rows :
          (check_in_guest(i) \/ check_in_cio(i))
             => LET r == reservations[i]
                    r2 == reservations'[i]
                IN  /\ r2 # r => /\ r.status = "Booked"
                                 /\ r.assigned_room # ""
                                 /\ r2.status = "In-House"
                    /\ r.status \in {"Checked-out", "Cancelled", "No-Show"}
                          => r2.status = r.status]_vars

\* C18: no step lowers last_locator; a Confirm & Save with a typed ID OO<n>
\* raises the counter to n when n is above the counter and leaves it as it
\* was when n is not above it (or when the ID is not of the form OO<n>).
C18_CounterMonotonic ==
    [][/\ last_locator' >= last_locator
       /\ \A manual \in ManualIds :
             (/\ on_save(TRUE, TRUE, form.dep - form.arr, "Booked", "", FALSE, manual)
              /\ Len(reservations') = Len(reservations) + 1)
                => LET typed == RES_ID(reservations'[Len(reservations')])
                       n == IntOf(typed.digits)
                   IN  /\ typed = manual
                       /\ (typed.pfx = "OO" /\ n > last_locator)
                             => last_locator' = n
                       /\ ~(typed.pfx = "OO" /\ n > last_locator)
                             => last_locator' = last_locator]_vars

\* A typed ID below the counter was saved and the counter stayed, and a
\* typed ID above the counter was saved and the counter is its number.
C18_Witness ==
    \E i, j \in 1..Len(reservations) :
        /\ reservations[i].id = FormatLocator(FIRST_LOCATOR - 1)
        /\ reservations[j].id = FormatLocator(FIRST_LOCATOR + 3)
        /\ last_locator = FIRST_LOCATOR + 3

C20_DateChangeFrame ==
    [][\A i \in Rows :
          DateChangeApplied(i)
             => LET r == reservations[i]
                    r2 == reservations'[i]
                IN  /\ r2.paid_advance = r.paid_advance
                    /\ r2.payments = r.payments
                    /\ r2.fully_paid = r.fully_paid
                    /\ r2.no_show_penalty = r.no_show_penalty
                    /\ r2.cancellation_fee = r.cancellation_fee
                    /\ r2.no_show_fee = r.no_show_fee
                    /\ r2.status = IF r.status = "Changing date" THEN "Booked"
                                   ELSE r.status
                    /\ r2 = [r EXCEPT !.arrive = r2.arrive, !.depart = r2.depart,
                                      !.total_locked = r2.total_locked,
                                      !.nightly = r2.nightly,
                                      !.change_note = r2.change_note,
                                      !.status = r2.status]
                    /\ \A j \in 1..Len(reservations) :
                          j # i => reservations'[j] = reservations[j]]_vars

\* A reservation paid in full at its creation whose dates were changed with
\* the surcharge: the payment history and paid_advance are those of the
\* creation, fully_paid is still set, and the locked total is above what
\* was paid.
C20_Witness ==
    \E i \in Rows :
        /\ reservations[i].change_note # NoNote
        /\ Len(reservations[i].payments) = 1
        /\ reservations[i].payments[1].amount = reservations[i].paid_advance
        /\ reservations[i].paid_advance = reservations[i].change_note.original_cost
        /\ reservations[i].fully_paid
        /\ reservations[i].total_locked > reservations[i].paid_advance

\* The 60-Day rule applies to r today.
SixtyDayRule(r) ==
    /\ r.status = "Booked"
    /\ r.rtype = "60-Day"
    /\ r.arrive - today = 30
    /\ r.paid_advance = 0

\* C21: a run of the daily batch sets to Cancelled, with no fee recorded and
\* nothing else changed, every reservation that is Booked, of type 60-Day,
\* arrives in exactly AUTOCANCEL_OFFSET days and has paid_advance 0; a
\* reservation that is not such and is not swept as a no-show (Booked, to
\* arrive yesterday, never checked in) is left as it was.
C21_SixtyDayAutoCancel ==
    [][run_daily_tasks_ui
          => \A i \in 1..Len(reservations) :
                LET r == reservations[i]
                    r2 == reservations'[i]
                    no_show == r.status = "Booked" /\ r.arrive = today - 1
                               /\ ~r.checked_in
                IN  /\ SixtyDayRule(r) => r2 = [r EXCEPT !.status = "Cancelled"]
                    /\ (~SixtyDayRule(r) /\ ~no_show) => r2 = r]_vars

\* A 60-Day reservation without a payment that the batch cancelled on the
\* day AUTOCANCEL_OFFSET days before its arrival, no fee recorded.
C21_Witness ==
    \E i \in Rows :
        /\ reservations[i].rtype = "60-Day"
        /\ reservations[i].status = "Cancelled"
        /\ reservations[i].arrive - today = AUTOCANCEL_OFFSET
        /\ reservations[i].paid_advance = 0
        /\ reservations[i].no_show_penalty = 0
        /\ reservations[i].cancellation_fee = 0
        /\ reservations[i].cancellation_reason = ""

\* The quote q prices every night of the span at the base rate of the night.
PricedAtBase(q, arrive, depart) ==
    /\ Len(q.nightly) = depart - arrive
    /\ \A k \in 1..Len(q.nightly) :
          /\ q.nightly[k].date = arrive + k - 1
          /\ q.nightly[k].rate = base_rate(base_rates, arrive + k - 1)
    /\ q.total = SumRates(q.nightly)

\* C22 as the specification states it: every quote a form takes for the
\* Conventional type is not eligible and is priced at the base rates.
C22_ConventionalNotEligible ==
    [][/\ (last_quote' # last_quote /\ form'.rtype = "Conventional")
             => /\ ~last_quote'.eligible
                /\ PricedAtBase(last_quote', form'.arr, form'.dep)
       /\ (last_quote_enh' # last_quote_enh /\ last_quote_enh'.set
            /\ form_enh'.rtype = "Conventional")
             => /\ ~last_quote_enh'.eligible
                /\ PricedAtBase(last_quote_enh', form_enh'.arr, form_enh'.dep)]_vars

\* C22: every quote a form takes for the Conventional type is priced at the
\* base rates (multiplier 1.00) whatever the arrival and the occupancy; its
\* eligible answer follows the terms of the incentive as for every type, so
\* it is false only when the arrival is more than INCENTIVE_DAYS days away
\* or the occupancy is above INCENTIVE_OCC_PCT percent.
C22_ConventionalAtBase ==
    [][/\ (last_quote' # last_quote /\ form'.rtype = "Conventional")
             => /\ last_quote'.eligible <=> IncentiveTerms(form'.arr, form'.dep)
                /\ PricedAtBase(last_quote', form'.arr, form'.dep)
       /\ (last_quote_enh' # last_quote_enh /\ last_quote_enh'.set
            /\ form_enh'.rtype = "Conventional")
             => /\ last_quote_enh'.eligible
                      <=> IncentiveTerms(form_enh'.arr, form_enh'.dep)
                /\ PricedAtBase(last_quote_enh', form_enh'.arr, form_enh'.dep)]_vars

\* The example of the specification: base rate 300.00, three nights, type
\* Conventional, occupancy 0: total 900.00, three entries of 300.00; the
\* arrival is ten days out and the quote is eligible.
C22_Witness ==
    /\ last_quote.set /\ form.rtype = "Conventional"
    /\ form.arr = today + EXAMPLE_DAYS_OUT /\ form.dep = form.arr + EXAMPLE_NIGHTS
    /\ last_quote.occ.num = 0
    /\ Len(last_quote.nightly) = 3
    /\ \A k \in 1..3 : last_quote.nightly[k].rate = 30000
    /\ last_quote.total = 90000
    /\ last_quote.eligible

\* C23: on every store the programs reach and for every span, the occupancy
\* ratio is between 0 and 1 inclusive, and it is 0 for a span of no night
\* and for a store without a Booked or In-House reservation.
C23_OccupancyInUnitRange ==
    \A a \in FullArrive, n \in 0..MaxNights :
        LET o == occ_ratio(reservations, a, a + n)
        IN  /\ o.den > 0
            /\ 0 <= o.num /\ o.num <= o.den
            /\ n = 0 => o.num = 0
            /\ (\A i \in 1..Len(reservations) : ~IsActive(reservations[i]))
                  => o.num = 0

\* C24: every reservation of the store departs strictly after it arrives,
\* and a Get Quote, a Confirm & Save or an Apply Date Change with a departure
\* not after the arrival leaves the store, and the quote of the form, as
\* they were.
C24_DepartAfterArrive ==
    /\ [](\A i \in 1..Len(reservations) :
             reservations[i].depart > reservations[i].arrive)
    /\ [][/\ (form.dep <= form.arr
              /\ (\/ on_quote(form.arr, form.dep, NoDays, form.rtype)
                  \/ \E status \in FormStatuses, n \in Nights :
                        on_save(TRUE, TRUE, n, status, "", TRUE, EmptyId)))
                => (reservations' = reservations /\ last_quote' = last_quote)
          /\ (form_enh.dep <= form_enh.arr
              /\ (\/ on_quote_enh(form_enh.arr, form_enh.dep, form_enh.rtype)
                  \/ on_save_enh(TRUE, TRUE, "")))
                => (reservations' = reservations /\ last_quote_enh' = last_quote_enh)
          /\ \A i \in Rows : \A a \in FormArrive, d \in FormDepart :
                (d <= a /\ apply_date_change(i, a, d))
                   => reservations' = reservations]_vars

\* C25: the reservation a save appends has the status Booked, and a Confirm
\* & Save of a form that holds no quote appends nothing and leaves the
\* locator counter as it was.
C25_SavedAsBooked ==
    [][/\ Len(reservations') = Len(reservations) + 1
             => reservations'[Len(reservations')].status = "Booked"
       /\ (~last_quote.set
           /\ \E status \in FormStatuses, n \in Nights :
                 on_save(TRUE, TRUE, n, status, "", TRUE, EmptyId))
             => (reservations' = reservations /\ last_locator' = last_locator)
       /\ (~last_quote_enh.set /\ on_save_enh(TRUE, TRUE, ""))
             => (reservations' = reservations /\ last_locator' = last_locator)]_vars

\* C26: a payment handler (Apply Payment Update, Process Payment, Process
\* Prepayment) run on a reservation whose paid_advance is at least its
\* total_locked leaves its payment history and its paid_advance as they
\* were.
C26_FullyPaidRefused ==
    [][\A i \in Rows :
          (/\ reservations[i].paid_advance >= reservations[i].total_locked
           /\ \/ \E amt \in PayAmounts : apply_payment_update(i, today, amt)
              \/ \E c \in BOOLEAN : process_payment(i, c) \/ process_prepayment(i, c))
             => /\ reservations'[i].payments = reservations[i].payments
                /\ reservations'[i].paid_advance = reservations[i].paid_advance]_vars

\* C27: on every night the Booked and In-House reservations that cover the
\* night are at most ROOM_COUNT, and no save and no date change takes a
\* night from within the capacity to above it.
C27_WithinCapacity ==
    /\ [](\A d \in (HotDay - 1) .. (HotDay + MaxNights + 1) :
             Occupied(reservations, d, EmptyId) <= ROOM_COUNT)
    /\ [][\A d \in (HotDay - 1) .. (HotDay + MaxNights + 1) :
             Occupied(reservations, d, EmptyId) <= ROOM_COUNT
                => Occupied(reservations', d, EmptyId) <= ROOM_COUNT]_vars

\* C28: a reservation whose fully_paid flag is set has paid_advance at
\* least total_locked, also after a date change that raised total_locked.
C28_FullyPaidMeansPaid ==
    \A i \in 1..Len(reservations) :
        reservations[i].fully_paid
           => reservations[i].paid_advance >= reservations[i].total_locked

\* The multipliers a quote can use for a reservation type.
MultsOf(rtype) ==
    IF rtype = "Incentive" THEN {RATE_MULT[rtype], 100} ELSE {RATE_MULT[rtype]}

\* C29: the nightly snapshot of every reservation of the store has one
\* entry for each night from arrive to depart - 1, in order, and the rates
\* are the base rates of those nights times a multiplier of the stored
\* reservation type.
C29_SnapshotMatchesRecord ==
    \A i \in 1..Len(reservations) :
        LET r == reservations[i]
        IN  /\ Len(r.nightly) = r.depart - r.arrive
            /\ \A k \in 1..Len(r.nightly) : r.nightly[k].date = r.arrive + k - 1
            /\ \E m \in MultsOf(r.rtype) :
                  \A k \in 1..Len(r.nightly) :
                      r.nightly[k].rate =
                         RoundHalfEven(base_rate(base_rates, r.nightly[k].date) * m, 100)

\* C30: a reservation record whose arrival date does not parse does not abort
\* Run Daily Tasks: that record is skipped, every other Booked reservation gets
\* the reminder, the auto-cancel or the no-show marking that applies to it, and
\* the reservations as the batch leaves them in memory are the ones of the data
\* file.
C30_MalformedSkipped ==
    [][run_daily_tasks_ui =>
          /\ \A i \in 1..Len(reservations) :
                LET r == reservations[i]
                IN  IF Parses(r.arrive)
                    THEN /\ Reminded(r, today) => <<RES_ID(r), today>> \in reminders'
                         /\ AutoCancelled(r, today) =>
                               reservations'[i].status = "Cancelled"
                         /\ NoShowed(r, today) =>
                               (/\ reservations'[i].status = "Cancelled"
                                /\ reservations'[i].cancellation_reason = "No-show")
                    ELSE reservations'[i] = r
          /\ reservations' = data_file'.reservations]_vars

\* C31: two writers that each loaded the whole store lose updates silently.  A
\* handler that changes the store of its process writes the whole of that
\* store over the file, whatever the other process saved since this one
\* loaded; the witness is a state in which the file holds neither a
\* reservation that the other process saved nor its bump of the locator
\* counter.
C31_WholeStoreSaved ==
    [][(/\ \/ on_save(TRUE, TRUE, form.dep - form.arr, "Booked", TwoRoom, TRUE, EmptyId)
           \/ \E i \in Rows : cancel_reservation(i, TRUE)
           \/ \E i \in Rows : check_in_guest(i)
        /\ terminal2' = terminal2
        /\ state_data' # state_data)
       => data_file' = state_data']_vars

C31_Witness ==
    /\ terminal2.state_data.last_locator > data_file.last_locator
    /\ \E i \in 1..Len(terminal2.state_data.reservations) :
          RES_ID(terminal2.state_data.reservations[i]) \notin Ids(data_file.reservations)

RECURSIVE SumAmounts(_)
SumAmounts(ps) == IF ps = <<>> THEN 0 ELSE ps[1].amount + SumAmounts(Tail(ps))

\* C32: a reservation's paid_advance equals the sum of the amounts in its
\* payment history in every reachable state.
C32_PaidIsPaymentSum ==
    \A i \in 1..Len(reservations) :
        reservations[i].paid_advance = SumAmounts(reservations[i].payments)

\* C33: every reservation whose status is Checked-out has paid_advance at
\* least total_locked, whatever its type.
C33_CheckedOutIsPaid ==
    \A i \in 1..Len(reservations) :
        reservations[i].status = "Checked-out" =>
            reservations[i].paid_advance >= reservations[i].total_locked

AsBooked(r) == [r EXCEPT !.status = "Booked"]

\* C34: a reservation in the Changing date status is treated as a Booked one:
\* it is active for the occupancy ratio and the availability check, the daily
\* batch applies the reminder, the auto-cancel and the no-show marking to it,
\* and check-in and cancel accept it as they accept a Booked reservation.
C34_ChangingDateAsBooked ==
    /\ [](\A i \in 1..Len(reservations) :
             reservations[i].status = "Changing date" => IsActive(reservations[i]))
    /\ [][\A i \in 1..Len(reservations) :
             LET r == reservations[i]
             IN  r.status = "Changing date" =>
                    /\ (run_daily_tasks_ui /\ Reminded(AsBooked(r), today))
                          => <<RES_ID(r), today>> \in reminders'
                    /\ (run_daily_tasks_ui /\ (\/ AutoCancelled(AsBooked(r), today)
                                               \/ NoShowed(AsBooked(r), today)))
                          => reservations'[i].status = "Cancelled"
                    /\ (check_in_guest(i) /\ r.assigned_room # "")
                          => reservations'[i].status = "In-House"
                    /\ cancel_reservation(i, TRUE)
                          => reservations'[i].status = "Cancelled"]_vars

\* C35: a reservation's paid_advance does not exceed its total_locked in any
\* reachable state.
C35_NeverOverpaid ==
    \A i \in 1..Len(reservations) :
        reservations[i].paid_advance <= reservations[i].total_locked

\* C36: every saved reservation has between 1 and 60 nights (depart minus
\* arrive), and Confirm & Save refuses dates that span more than 60 nights
\* whatever the Number of Days field holds.
C36_NightsWithinLimit ==
    /\ [](\A i \in 1..Len(reservations) :
             /\ reservations[i].depart - reservations[i].arrive >= MIN_DAYS
             /\ reservations[i].depart - reservations[i].arrive <= MAX_DAYS_BASE)
    /\ [][\A days \in SpanDays :
             (/\ on_save(TRUE, TRUE, days, "Booked", "", TRUE, EmptyId)
              /\ form.dep - form.arr > MAX_DAYS_BASE)
             => reservations' = reservations]_vars

\* C37: Apply Date Change is refused for a reservation whose status is
\* Cancelled or Checked-out: its dates, total_locked and snapshot stay as
\* they are.
C37_DateChangeOnlyActive ==
    [][\A i \in 1..Len(reservations), a \in ArriveDays, n \in Nights :
          (/\ apply_date_change(i, a, a + n)
           /\ reservations[i].status \in {"Cancelled", "Checked-out"})
          => reservations'[i] = reservations[i]]_vars

\* C38: the lifecycle flags agree with the status in every reachable state:
\* checked_out is true exactly when the status is Checked-out, and a
\* reservation that is In-House or Checked-out has checked_in true and an
\* assigned room.
C38_FlagsAgreeWithStatus ==
    \A i \in 1..Len(reservations) :
        LET r == reservations[i]
        IN  /\ r.checked_out <=> r.status = "Checked-out"
            /\ r.status \in {"In-House", "Checked-out"} =>
                  (r.checked_in /\ r.assigned_room # "")

\* C39: no operation lowers a reservation's paid_advance: after every step it
\* is equal to or larger than before.
C39_PaidNeverDecreases ==
    [][\A i \in 1..Len(reservations) :
          /\ i <= Len(reservations')
          /\ reservations'[i].paid_advance >= reservations[i].paid_advance]_vars


C39_Witness ==
    \E i \in 1..Len(reservations) :
        /\ reservations[i].status = "Cancelled"
        /\ Len(reservations[i].payments) >= 1
        /\ reservations[i].no_show_penalty > 0
        /\ reservations[i].paid_advance > SumAmounts(reservations[i].payments)
====
